---- MODULE Spec2Model ----
(***************************************************************************)
(* LLM Council backend: the OpenRouter gateway (backend/openrouter.py) and *)
(* the message endpoints of the FastAPI application (backend/main.py).     *)
(*                                                                         *)
(* SpecFan  : one call of query_models_parallel, its query_model tasks     *)
(*            completing in any order with any upstream outcome.           *)
(* Spec     : message requests (streaming and non-streaming) interleaved   *)
(*            at their suspension points over the conversation store.      *)
(* SpecHttp : HTTP exchanges served one at a time by the middleware stack  *)
(*            (authentication, version headers, CORS) and the routes.      *)
(* SpecRank : one deliberation's anonymizer and rank aggregator.           *)
(***************************************************************************)
EXTENDS Integers, Sequences, FiniteSets, TLC

(***************************************************************************)
(* Bounds                                                                  *)
(***************************************************************************)
\* Largest number of models handed to one fan-out.
MaxModels == 3
\* Number of distinct completion texts an upstream may return.
NumContents == 2

Models == 1..MaxModels
Contents == 1..NumContents

(***************************************************************************)
(* Gateway values                                                          *)
(***************************************************************************)
\* Python None, also the value of dict.get() for a missing field.
NoneVal == 0

\* config.OPENROUTER_API_KEY as loaded at process start.
KeyStates == {"unset", "placeholder", "valid"}

\* What the remote endpoint does with one POST.
\*   ok            2xx, choices[0].message with a content field
\*   ok_no_content 2xx, choices[0].message without a content field
\*   http401       401 status
\*   http_other    another non-2xx status (429, 500, ...)
\*   timeout       no answer within the timeout
\*   connect_error connection could not be established
\*   malformed     2xx whose body has no choices[0].message
UpstreamKinds ==
    {"ok", "ok_no_content", "http401", "http_other", "timeout", "connect_error", "malformed"}

Upstreams ==
    [kind : {"ok"}, content : Contents]
        \cup [kind : UpstreamKinds \ {"ok"}, content : {NoneVal}]

\* An upstream that has not been asked (the task has not run).
NotAsked == [kind |-> "not_asked", content |-> NoneVal]

\* The exception the body of the try block raises for an upstream, or "none".
\* raise_for_status raises HTTPStatusError on non-2xx; the client raises
\* TimeoutException / ConnectError; data['choices'][0]['message'] raises
\* KeyError (IndexError, TypeError) on a body of another shape.
TryBlockRaises(up) ==
    CASE up.kind \in {"http401", "http_other"} -> "HTTPStatusError"
      [] up.kind = "timeout" -> "TimeoutException"
      [] up.kind = "connect_error" -> "ConnectError"
      [] up.kind = "malformed" -> "KeyError"
      [] OTHER -> "none"

\* Exception classes deriving from Exception (all of the above do).
ExceptionSubclasses == {"HTTPStatusError", "TimeoutException", "ConnectError", "KeyError"}

\* except httpx.HTTPStatusError / except Exception: the classes the two
\* handlers of query_model catch.
HandlersCatchHTTPOnly(ex) == ex = "HTTPStatusError"

HandlersCatch(ex) == ex = "HTTPStatusError" \/ ex \in ExceptionSubclasses

\* A value query_model hands back: raised tells whether an exception left
\* the function; value is None or the dict {'content', 'reasoning_details'}.
Returned(v) == [raised |-> FALSE, isNone |-> FALSE, content |-> v]

ReturnedNone == [raised |-> FALSE, isNone |-> TRUE, content |-> NoneVal]

Raised == [raised |-> TRUE, isNone |-> TRUE, content |-> NoneVal]

\* query_model(model, messages): key validation, then the POST inside try.
query_model(key, up) ==
    IF key = "unset" THEN ReturnedNone
    ELSE IF key = "placeholder" THEN ReturnedNone
    ELSE LET ex == TryBlockRaises(up)
         IN IF ex = "none" THEN Returned(up.content)
            ELSE IF HandlersCatch(ex) THEN ReturnedNone
            ELSE Raised

\* A diagnostic that reports every HTTP error status the same way.
DiagnosticSameForAllStatuses(key, up) ==
    IF key = "unset" THEN "key_not_set"
    ELSE IF key = "placeholder" THEN "key_placeholder"
    ELSE LET ex == TryBlockRaises(up)
         IN IF ex = "none" THEN "none"
            ELSE IF ex = "HTTPStatusError" THEN "http_status"
            ELSE "error"

\* What query_model prints: nothing on success, and on failure the message
\* of the branch that returned None (the 401 branch prints its own).
Diagnostic(key, up) ==
    IF key = "unset" THEN "key_not_set"
    ELSE IF key = "placeholder" THEN "key_placeholder"
    ELSE LET ex == TryBlockRaises(up)
         IN IF ex = "none" THEN "none"
            ELSE IF ex = "HTTPStatusError"
                 THEN IF up.kind = "http401" THEN "401_unauthorized" ELSE "http_status"
            ELSE "error"

\* A pairing that reads the responses from the last position backwards.
ZipPairsReversed(ms, rs) == {<<ms[i], rs[Len(ms) + 1 - i]>> : i \in 1..Len(ms)}

\* zip(models, responses) paired position by position.
ZipPairs(ms, rs) == {<<ms[i], rs[i]>> : i \in 1..Len(ms)}

\* A result comprehension that keeps only the models that answered.
DictOfAnswered(pairs) ==
    LET ps == {p \in pairs : ~p[2].isNone}
    IN [m \in {p[1] : p \in ps} |-> (CHOOSE p \in ps : p[1] = m)[2]]

\* {model: response for model, response in zip(...)}: a dict from pairs with
\* distinct keys.
DictOf(pairs) ==
    [m \in {p[1] : p \in pairs} |-> (CHOOSE p \in pairs : p[1] = m)[2]]

\* Non-empty lists of distinct models: the `models` argument.
ModelLists ==
    {ms \in UNION {[1..n -> Models] : n \in 1..MaxModels} :
        \A i, j \in DOMAIN ms : i # j => ms[i] # ms[j]}

VARIABLES
    apiKey,      \* config.OPENROUTER_API_KEY
    fanPc,       \* "start" | "idle" | "gathering" | "returned" | "raised"
    fanModels,   \* the models argument of query_models_parallel
    fanUpstream, \* per task: what the remote did (NotAsked before it ran)
    fanDone,     \* positions of the tasks that have completed
    responses,   \* per task: the value query_model returned
    fanResult,   \* the mapping query_models_parallel returned
    fanDiag,     \* per task: the diagnostic query_model printed
    numConvs,    \* conversations created so far (ids 1..numConvs exist)
    convMsgs,    \* storage: per conversation, its list of messages
    convTitle,   \* storage: per conversation, its title (0: the default)
    numRecv,     \* message requests received so far
    reqKind,     \* per request: "stream" | "sync" ("none" before receipt)
    reqConv,     \* per request: conversation_id of the path
    reqPc,       \* per request: where its handler / generator stands
    isFirst,     \* per request: is_first_message
    heldAtRecv,  \* per request: messages the conversation held at receipt
    titleTask,   \* per request: "none" | "running" | "ok" | "failed" | "abandoned"
    stage1,      \* per request: stage1_results
    stage2,      \* per request: stage2_results
    stage3,      \* per request: stage3_result
    status,      \* per request: HTTP status answered (0: none yet)
    log,         \* per request: events yielded and calls made, in order
    cfgAuthEnabled, \* config.API_AUTH_ENABLED
    cfgApiKeys,  \* config.API_KEYS
    cfgCorsAll,  \* config.CORS_ORIGINS is ["*"] (else: the listed origin only)
    hPc,         \* HTTP exchange: "start" | "idle" | "received" | "responded"
    hCount,      \* HTTP exchanges received so far
    hReq,        \* the request of the current exchange
    hOut,        \* what the deliberation of the current exchange did
    hResp,       \* the response of the current exchange
    hBefore,     \* the store as it was when the request was received
    rkPc,        \* deliberation: "start" | "stage1" | "ranking" | "aggregated" | "failed"
    rkBundle,    \* Stage1Bundle: per model "content" or "error"
    rkLabels,    \* the label-to-model mapping of the deliberation
    rkSubs,      \* the ranking submissions of stage 2, in arrival order
    rkAgg        \* the aggregate ranking

fanVars == <<apiKey, fanPc, fanModels, fanUpstream, fanDone, responses, fanResult, fanDiag>>

storeVars == <<numConvs, convMsgs, convTitle>>

reqVars == <<numRecv, reqKind, reqConv, reqPc, isFirst, heldAtRecv, titleTask,
             stage1, stage2, stage3, status, log>>

httpVars ==
    <<cfgAuthEnabled, cfgApiKeys, cfgCorsAll, hPc, hCount, hReq, hOut, hResp, hBefore>>

\* What the fan-out and the interleaved message requests leave alone.
rankVars == <<rkPc, rkBundle, rkLabels, rkSubs, rkAgg>>

sideVars == <<httpVars, rankVars>>

vars == <<fanVars, storeVars, reqVars, sideVars>>

InitFan ==
    /\ apiKey = "unset"
    /\ fanPc = "start"
    /\ fanModels = <<>>
    /\ fanUpstream = <<>>
    /\ fanDone = {}
    /\ responses = <<>>
    /\ fanResult = <<>>
    /\ fanDiag = <<>>

\* config.py at import: OPENROUTER_API_KEY = os.getenv("OPENROUTER_API_KEY").
LoadConfig(key) ==
    /\ fanPc = "start"
    /\ apiKey' = key
    /\ fanPc' = "idle"
    /\ UNCHANGED <<fanModels, fanUpstream, fanDone, responses, fanResult, fanDiag, storeVars, reqVars, sideVars>>

\* tasks = [query_model(model, messages) for model in models]; gather starts.
FanStart(ms) ==
    /\ fanPc = "idle"
    /\ fanPc' = "gathering"
    /\ fanModels' = ms
    /\ fanUpstream' = [i \in 1..Len(ms) |-> NotAsked]
    /\ responses' = [i \in 1..Len(ms) |-> ReturnedNone]
    /\ fanDone' = {}
    /\ fanDiag' = [i \in 1..Len(ms) |-> "none"]
    /\ UNCHANGED <<apiKey, fanResult, storeVars, reqVars, sideVars>>

\* The task of position i runs query_model to its end.  An exception leaving
\* a task makes gather raise it to the caller of query_models_parallel.
TaskComplete(i, up) ==
    /\ fanPc = "gathering"
    /\ i \in DOMAIN fanModels
    /\ i \notin fanDone
    /\ LET r == query_model(apiKey, up)
       IN /\ responses' = [responses EXCEPT ![i] = r]
          /\ fanPc' = IF r.raised THEN "raised" ELSE fanPc
    /\ fanUpstream' = [fanUpstream EXCEPT ![i] =
                          IF apiKey = "valid" THEN up ELSE NotAsked]
    /\ fanDone' = fanDone \cup {i}
    /\ fanDiag' = [fanDiag EXCEPT ![i] = Diagnostic(apiKey, up)]
    /\ UNCHANGED <<apiKey, fanModels, fanResult, storeVars, reqVars, sideVars>>

\* A wait that returns as soon as one task is done.
GatherReadyOnFirst(done, ms) == done # {}

\* await asyncio.gather(*tasks): the await ends when every task is done.
GatherReady(done, ms) == done = DOMAIN ms

\* responses = await asyncio.gather(*tasks) returns once every task is done;
\* the result dict is built from zip(models, responses).
FanReturn ==
    /\ fanPc = "gathering"
    /\ GatherReady(fanDone, fanModels)
    /\ fanResult' = DictOf(ZipPairs(fanModels, responses))
    /\ fanPc' = "returned"
    /\ UNCHANGED <<apiKey, fanModels, fanUpstream, fanDone, responses, fanDiag, storeVars, reqVars, sideVars>>

(***************************************************************************)
(* Conversation store and message endpoints                                *)
(***************************************************************************)
\* Message requests of one run.
MaxReq == 2
\* Conversations that can be created in one run.
MaxConv == 2
\* len(config.COUNCIL_MODELS)
NumCouncil == 4

Reqs == 1..MaxReq
ConvIds == 1..MaxConv
\* A conversation_id for which storage.get_conversation returns None.
MissingConv == 0
Council == 1..NumCouncil
\* The stage-1 fan-out results enumerated: the council models that answered
\* are none, one of them, or all of them.
AnsweredCases == {{}, {1}, Council}

\* Event types of the stream (the 'type' field of each yielded record).
StageEvents ==
    {"stage1_start", "stage1_complete", "stage2_start", "stage2_complete",
     "stage3_start", "stage3_complete"}

TerminalEvents == {"complete", "error"}

EventTypes == StageEvents \cup {"title_complete"} \cup TerminalEvents

\* A stage result is written as the request whose deliberation produced it;
\* NoStage is a result not computed.
NoStage == 0

\* storage.add_user_message / add_assistant_message: the record appended.
UserMessage(r) ==
    [role |-> "user", req |-> r, stage1 |-> NoStage, stage2 |-> NoStage, stage3 |-> NoStage]

\* An assistant record that stores the stage-2 payload in both ranking slots
\* and drops the stage-1 payload.
AssistantMessageNoStage1(r, s1, s2, s3) ==
    [role |-> "assistant", req |-> r, stage1 |-> NoStage, stage2 |-> s2, stage3 |-> s3]

\* An assistant record built from one result slot shared by all requests: it
\* holds the results of the request received last.
AssistantMessageShared(r, s1, s2, s3) ==
    [role |-> "assistant", req |-> r,
     stage1 |-> stage1[numRecv], stage2 |-> stage2[numRecv], stage3 |-> stage3[numRecv]]

AssistantMessage(r, s1, s2, s3) ==
    [role |-> "assistant", req |-> r, stage1 |-> s1, stage2 |-> s2, stage3 |-> s3]

\* is_first_message = len(conversation["messages"]) == 0
IsFirstMessageAlways(messages) == TRUE

IsFirstMessage(messages) == Len(messages) = 0

\* stage1_collect_responses: raises when no council model answered.
Stage1Raises(answered) == answered = {}

\* What the generator yields around each stage call.
EventsBeforeStage1 == <<"stage1_start">>

EventsAfterStage1Swapped == <<"stage2_start", "stage1_complete">>

EventsAfterStage1 == <<"stage1_complete", "stage2_start">>

EventsAfterStage2 == <<"stage2_complete", "stage3_start">>

EventsAfterStage3 == <<"stage3_complete">>

\* except Exception as e: yield the error event; the generator then ends.
ExceptYieldsErrorThenComplete == <<"error", "complete">>

ExceptYields == <<"error">>

\* An exception leaves the try body: nothing of the body after it runs.
PcAfterExceptionResumes(pc) ==
    CASE pc = "s1" -> "s2" [] pc = "s2" -> "s3" [] OTHER -> "done"

PcAfterException(pc) == "done"

\* The generator ends by an exception before `await title_task`: the local
\* title_task goes out of scope and the task, if one was created, runs on
\* with nobody awaiting it.  (send_message_v1 has awaited the title before
\* any stage runs.)
TitleHandleDropped(kind, task) ==
    IF kind = "stream" /\ task # "none" THEN "abandoned" ELSE task

\* if title_task: await it, else go on to save the assistant message.
PcAfterStage3NeverJoins(task) == "save"

PcAfterStage3(task) == IF task # "none" THEN "join" ELSE "save"

InitStore ==
    /\ numConvs = 0
    /\ convMsgs = [c \in ConvIds |-> <<>>]
    /\ convTitle = [c \in ConvIds |-> 0]

InitReq ==
    /\ numRecv = 0
    /\ reqKind = [r \in Reqs |-> "none"]
    /\ reqConv = [r \in Reqs |-> MissingConv]
    /\ reqPc = [r \in Reqs |-> "idle"]
    /\ isFirst = [r \in Reqs |-> FALSE]
    /\ heldAtRecv = [r \in Reqs |-> -1]
    /\ titleTask = [r \in Reqs |-> "none"]
    /\ stage1 = [r \in Reqs |-> NoStage]
    /\ stage2 = [r \in Reqs |-> NoStage]
    /\ stage3 = [r \in Reqs |-> NoStage]
    /\ status = [r \in Reqs |-> 0]
    /\ log = [r \in Reqs |-> <<>>]

InitHttp ==
    /\ cfgAuthEnabled = FALSE
    /\ cfgApiKeys = {"TestKey123"}
    /\ cfgCorsAll = TRUE
    /\ hPc = "start"
    /\ hCount = 0
    /\ hReq = [method |-> "none", path |-> "none", conv |-> MissingConv,
               key |-> "absent", origin |-> "absent", acrm |-> FALSE]
    /\ hOut = "ok"
    /\ hResp = [status |-> 0, headers |-> {}, handler |-> "none", effects |-> {},
                store |-> [num |-> 0, msgs |-> [c \in ConvIds |-> <<>>],
                           title |-> [c \in ConvIds |-> 0]],
                raised |-> FALSE, passed |-> TRUE]
    /\ hBefore = [num |-> 0, msgs |-> [c \in ConvIds |-> <<>>],
                  title |-> [c \in ConvIds |-> 0]]

InitRank ==
    /\ rkPc = "start"
    /\ rkBundle = <<>>
    /\ rkLabels = <<>>
    /\ rkSubs = <<>>
    /\ rkAgg = <<>>

Init == InitFan /\ InitStore /\ InitReq /\ InitHttp /\ InitRank

\* The markers a request adds to its log, besides the events it yields:
\*   add_user, add_assistant, set_title   storage writes that succeeded
\*   *_raise                              the call that raised
\*   title_start, title_join              the title call started / its await ended
\*   sN_call, sN_ret                      stage N called / returned
\*   s1_all_failed                        the stage-1 fan-out had no answer
Emit(r, items) == [log EXCEPT ![r] = @ \o items]

SetPc(r, pc) == [reqPc EXCEPT ![r] = pc]

\* An exception raised at the current point of request r; `what` are the
\* markers of the call that raised.
\* Streaming: the generator's except clause yields the error event.
\* Non-streaming: the exception leaves the handler and is answered with 500.
Fails(r, what) ==
    /\ log' = Emit(r, what \o (IF reqKind[r] = "stream" THEN ExceptYields ELSE <<>>))
    /\ status' = IF reqKind[r] = "sync" THEN [status EXCEPT ![r] = 500] ELSE status
    /\ reqPc' = SetPc(r, PcAfterException(reqPc[r]))

\* create_conversation_v1: storage.create_conversation(new id).
CreateConversation ==
    /\ numConvs < MaxConv
    /\ numConvs' = numConvs + 1
    /\ UNCHANGED <<convMsgs, convTitle, fanVars, reqVars, sideVars>>

\* The conversation_id values a request is sent with: MissingConv, or a
\* conversation that exists.  Conversation ids are opaque (uuid4), so of the
\* conversations no request has used yet only the oldest is enumerated.
Targetable(c) ==
    /\ c <= numConvs
    /\ c <= 1 + Cardinality({reqConv[q] : q \in 1..numRecv} \ {MissingConv})

\* send_message_stream_v1 up to `return StreamingResponse(...)`.
RecvStream(r, c) ==
    /\ r = numRecv + 1
    /\ Targetable(c)
    /\ numRecv' = r
    /\ reqKind' = [reqKind EXCEPT ![r] = "stream"]
    /\ reqConv' = [reqConv EXCEPT ![r] = c]
    /\ IF c = MissingConv
       THEN /\ status' = [status EXCEPT ![r] = 404]
            /\ reqPc' = SetPc(r, "done")
            /\ UNCHANGED <<isFirst, heldAtRecv>>
       ELSE /\ isFirst' = [isFirst EXCEPT ![r] = IsFirstMessage(convMsgs[c])]
            /\ heldAtRecv' = [heldAtRecv EXCEPT ![r] = Len(convMsgs[c])]
            /\ status' = [status EXCEPT ![r] = 200]
            /\ reqPc' = SetPc(r, "gen")
    /\ UNCHANGED <<titleTask, stage1, stage2, stage3, log, storeVars, fanVars, sideVars>>

\* event_generator from its first line to the stage-1 await: the user message
\* is stored, the title task created, stage1_start yielded, stage 1 called.
GenStart(r, stored) ==
    /\ reqKind[r] = "stream"
    /\ reqPc[r] = "gen"
    /\ IF stored
       THEN /\ convMsgs' = [convMsgs EXCEPT ![reqConv[r]] = Append(@, UserMessage(r))]
            /\ titleTask' = [titleTask EXCEPT ![r] = IF isFirst[r] THEN "running" ELSE "none"]
            /\ log' = Emit(r, <<"add_user">>
                               \o (IF isFirst[r] THEN <<"title_start">> ELSE <<>>)
                               \o EventsBeforeStage1 \o <<"s1_call">>)
            /\ reqPc' = SetPc(r, "s1")
            /\ UNCHANGED status
       ELSE /\ Fails(r, <<"add_user_raise">>)
            /\ UNCHANGED <<convMsgs, titleTask>>
    /\ UNCHANGED <<numConvs, convTitle, numRecv, reqKind, reqConv, isFirst, heldAtRecv,
                   stage1, stage2, stage3, fanVars, sideVars>>

\* send_message_v1 up to its first await.
RecvSync(r, c, stored) ==
    /\ r = numRecv + 1
    /\ Targetable(c)
    /\ numRecv' = r
    /\ reqKind' = [reqKind EXCEPT ![r] = "sync"]
    /\ reqConv' = [reqConv EXCEPT ![r] = c]
    /\ IF c = MissingConv
       THEN /\ status' = [status EXCEPT ![r] = 404]
            /\ reqPc' = SetPc(r, "done")
            /\ UNCHANGED <<isFirst, heldAtRecv, convMsgs, titleTask, log>>
       ELSE /\ isFirst' = [isFirst EXCEPT ![r] = IsFirstMessage(convMsgs[c])]
            /\ heldAtRecv' = [heldAtRecv EXCEPT ![r] = Len(convMsgs[c])]
            /\ IF stored
               THEN /\ convMsgs' = [convMsgs EXCEPT ![c] = Append(@, UserMessage(r))]
                    /\ titleTask' = [titleTask EXCEPT ![r] =
                                        IF isFirst'[r] THEN "running" ELSE "none"]
                    /\ log' = Emit(r, <<"add_user">>
                                       \o (IF isFirst'[r] THEN <<"title_start">>
                                                           ELSE <<"s1_call">>))
                    /\ reqPc' = SetPc(r, IF isFirst'[r] THEN "title_wait" ELSE "s1")
                    /\ UNCHANGED status
               ELSE /\ log' = Emit(r, <<"add_user_raise">>)
                    /\ status' = [status EXCEPT ![r] = 500]
                    /\ reqPc' = SetPc(r, "done")
                    /\ UNCHANGED <<convMsgs, titleTask>>
    /\ UNCHANGED <<numConvs, convTitle, stage1, stage2, stage3, fanVars, sideVars>>

\* The task created by asyncio.create_task(generate_conversation_title(...))
\* finishes, by returning a title or by raising.
TitleTaskDone(r, ok) ==
    /\ reqKind[r] = "stream"
    /\ titleTask[r] = "running"
    /\ titleTask' = [titleTask EXCEPT ![r] = IF ok THEN "ok" ELSE "failed"]
    /\ UNCHANGED <<numRecv, reqKind, reqConv, reqPc, isFirst, heldAtRecv,
                   stage1, stage2, stage3, status, log, storeVars, fanVars, sideVars>>

\* send_message_v1: `title = await generate_conversation_title(...)` ends,
\* the title is stored and run_full_council is called.
TitleRetSync(r, ok, stored) ==
    /\ reqKind[r] = "sync"
    /\ reqPc[r] = "title_wait"
    /\ titleTask' = [titleTask EXCEPT ![r] = IF ok THEN "ok" ELSE "failed"]
    /\ IF ok /\ stored
       THEN /\ convTitle' = [convTitle EXCEPT ![reqConv[r]] = r]
            /\ log' = Emit(r, <<"title_join", "set_title", "s1_call">>)
            /\ reqPc' = SetPc(r, "s1")
            /\ UNCHANGED status
       ELSE /\ Fails(r, IF ok THEN <<"title_join", "set_title_raise">>
                              ELSE <<"title_join", "title_raise">>)
            /\ UNCHANGED convTitle
    /\ UNCHANGED <<numConvs, convMsgs, numRecv, reqKind, reqConv, isFirst, heldAtRecv,
                   stage1, stage2, stage3, fanVars, sideVars>>

\* stage1_collect_responses ends: `answered` are the council models whose
\* gateway call returned a response.
Stage1Ret(r, answered) ==
    /\ reqPc[r] = "s1"
    /\ LET seen == IF answered = {} THEN <<"s1_all_failed">> ELSE <<>>
       IN IF Stage1Raises(answered)
          THEN /\ titleTask' = [titleTask EXCEPT ![r] = TitleHandleDropped(reqKind[r], @)]
               /\ Fails(r, seen \o <<"s1_raise">>)
               /\ UNCHANGED stage1
          ELSE /\ stage1' = [stage1 EXCEPT ![r] = r]
               /\ log' = Emit(r, seen \o <<"s1_ret">>
                                  \o (IF reqKind[r] = "stream" THEN EventsAfterStage1 ELSE <<>>)
                                  \o <<"s2_call">>)
               /\ reqPc' = SetPc(r, "s2")
               /\ UNCHANGED <<status, titleTask>>
    /\ UNCHANGED <<numRecv, reqKind, reqConv, isFirst, heldAtRecv,
                   stage2, stage3, storeVars, fanVars, sideVars>>

\* stage2_collect_rankings ends and calculate_aggregate_rankings is applied.
Stage2Ret(r, ok) ==
    /\ reqPc[r] = "s2"
    /\ IF ok
       THEN /\ stage2' = [stage2 EXCEPT ![r] = r]
            /\ log' = Emit(r, <<"s2_ret">>
                               \o (IF reqKind[r] = "stream" THEN EventsAfterStage2 ELSE <<>>)
                               \o <<"s3_call">>)
            /\ reqPc' = SetPc(r, "s3")
            /\ UNCHANGED <<status, titleTask>>
       ELSE /\ titleTask' = [titleTask EXCEPT ![r] = TitleHandleDropped(reqKind[r], @)]
            /\ Fails(r, <<"s2_raise">>)
            /\ UNCHANGED stage2
    /\ UNCHANGED <<numRecv, reqKind, reqConv, isFirst, heldAtRecv,
                   stage1, stage3, storeVars, fanVars, sideVars>>

\* Streaming: stage3_synthesize_final ends and stage3_complete is yielded.
Stage3RetStream(r, ok) ==
    /\ reqKind[r] = "stream"
    /\ reqPc[r] = "s3"
    /\ IF ok
       THEN /\ stage3' = [stage3 EXCEPT ![r] = r]
            /\ log' = Emit(r, <<"s3_ret">> \o EventsAfterStage3)
            /\ reqPc' = SetPc(r, PcAfterStage3(titleTask[r]))
            /\ UNCHANGED <<status, titleTask>>
       ELSE /\ titleTask' = [titleTask EXCEPT ![r] = TitleHandleDropped(reqKind[r], @)]
            /\ Fails(r, <<"s3_raise">>)
            /\ UNCHANGED stage3
    /\ UNCHANGED <<numRecv, reqKind, reqConv, isFirst, heldAtRecv,
                   stage1, stage2, storeVars, fanVars, sideVars>>

\* Non-streaming: run_full_council returns, the assistant message is stored
\* and the stages are returned to the caller.
Stage3RetSync(r, ok, stored) ==
    /\ reqKind[r] = "sync"
    /\ reqPc[r] = "s3"
    /\ IF ok
       THEN /\ stage3' = [stage3 EXCEPT ![r] = r]
            /\ IF stored
               THEN /\ convMsgs' = [convMsgs EXCEPT ![reqConv[r]] =
                                       Append(@, AssistantMessage(r, stage1[r], stage2[r], r))]
                    /\ log' = Emit(r, <<"s3_ret", "add_assistant">>)
                    /\ status' = [status EXCEPT ![r] = 200]
                    /\ reqPc' = SetPc(r, "done")
               ELSE /\ log' = Emit(r, <<"s3_ret", "add_assistant_raise">>)
                    /\ status' = [status EXCEPT ![r] = 500]
                    /\ reqPc' = SetPc(r, PcAfterException(reqPc[r]))
                    /\ UNCHANGED convMsgs
       ELSE /\ Fails(r, <<"s3_raise">>)
            /\ UNCHANGED <<stage3, convMsgs>>
    /\ UNCHANGED <<numConvs, convTitle, numRecv, reqKind, reqConv, isFirst, heldAtRecv,
                   titleTask, stage1, stage2, fanVars, sideVars>>

\* Streaming: `title = await title_task` ends; the title is stored and
\* title_complete yielded.
JoinTitle(r, stored) ==
    /\ reqKind[r] = "stream"
    /\ reqPc[r] = "join"
    /\ titleTask[r] \in {"ok", "failed"}
    /\ IF titleTask[r] = "ok" /\ stored
       THEN /\ convTitle' = [convTitle EXCEPT ![reqConv[r]] = r]
            /\ log' = Emit(r, <<"title_join", "set_title", "title_complete">>)
            /\ reqPc' = SetPc(r, "save")
            /\ UNCHANGED status
       ELSE /\ Fails(r, IF titleTask[r] = "ok" THEN <<"title_join", "set_title_raise">>
                                              ELSE <<"title_join", "title_raise">>)
            /\ UNCHANGED convTitle
    /\ UNCHANGED <<numConvs, convMsgs, numRecv, reqKind, reqConv, isFirst, heldAtRecv,
                   titleTask, stage1, stage2, stage3, fanVars, sideVars>>

\* A generator that announces completion before it stores the message.
CompleteThenSave == <<"complete", "add_assistant">>

\* storage.add_assistant_message(...) returns, then `complete` is yielded.
SaveThenComplete == <<"add_assistant", "complete">>

\* Streaming: the assistant message is stored and `complete` yielded.
SaveAssistant(r, stored) ==
    /\ reqKind[r] = "stream"
    /\ reqPc[r] = "save"
    /\ IF stored
       THEN /\ convMsgs' = [convMsgs EXCEPT ![reqConv[r]] =
                               Append(@, AssistantMessage(r, stage1[r], stage2[r], stage3[r]))]
            /\ log' = Emit(r, SaveThenComplete)
            /\ reqPc' = SetPc(r, "done")
            /\ UNCHANGED status
       ELSE /\ Fails(r, <<"add_assistant_raise">>)
            /\ UNCHANGED convMsgs
    /\ UNCHANGED <<numConvs, convTitle, numRecv, reqKind, reqConv, isFirst, heldAtRecv,
                   titleTask, stage1, stage2, stage3, fanVars, sideVars>>

Next ==
    \/ CreateConversation
    \/ \E r \in Reqs, c \in ConvIds \cup {MissingConv} : RecvStream(r, c)
    \/ \E r \in Reqs, c \in ConvIds \cup {MissingConv}, stored \in BOOLEAN : RecvSync(r, c, stored)
    \/ \E r \in Reqs, stored \in BOOLEAN : GenStart(r, stored)
    \/ \E r \in Reqs, ok \in BOOLEAN : TitleTaskDone(r, ok)
    \/ \E r \in Reqs, ok \in BOOLEAN, stored \in BOOLEAN : TitleRetSync(r, ok, stored)
    \/ \E r \in Reqs, answered \in AnsweredCases : Stage1Ret(r, answered)
    \/ \E r \in Reqs, ok \in BOOLEAN : Stage2Ret(r, ok)
    \/ \E r \in Reqs, ok \in BOOLEAN : Stage3RetStream(r, ok)
    \/ \E r \in Reqs, ok \in BOOLEAN, stored \in BOOLEAN : Stage3RetSync(r, ok, stored)
    \/ \E r \in Reqs, stored \in BOOLEAN : JoinTitle(r, stored)
    \/ \E r \in Reqs, stored \in BOOLEAN : SaveAssistant(r, stored)

Spec == Init /\ [][Next]_vars

NextFan ==
    \/ \E key \in KeyStates : LoadConfig(key)
    \/ \E ms \in ModelLists : FanStart(ms)
    \/ \E i \in Models, up \in Upstreams : TaskComplete(i, up)
    \/ FanReturn

SpecFan == Init /\ [][NextFan]_vars

\* The event loop runs every task that can make progress, and each gateway
\* call ends: the POST answers, fails, or is cut off by its own timeout.
FairFan ==
    /\ WF_vars(FanReturn)
    /\ \A i \in Models : WF_vars(\E up \in Upstreams : TaskComplete(i, up))

SpecFanLive == Init /\ [][NextFan]_vars /\ FairFan

(***************************************************************************)
(* The HTTP application: configuration, middleware stack and routes        *)
(***************************************************************************)
\* HTTP exchanges of one run.
MaxHttpReq == 3

API_VERSION == "v1"

SERVICE_VERSION == "1.2.0"

Methods == {"GET", "POST", "OPTIONS"}

\* Paths of the routes that answer without the store.
HealthPaths == {"/", "/health", "/api/v1/status"}

V1Paths ==
    {"/api/v1/conversations", "/api/v1/conversations/{id}",
     "/api/v1/conversations/{id}/message", "/api/v1/conversations/{id}/message/stream"}

LegacyPaths ==
    {"/api/conversations", "/api/conversations/{id}",
     "/api/conversations/{id}/message", "/api/conversations/{id}/message/stream"}

\* A path no route is registered for.
UnroutedPath == "/api/v2/conversations"

Paths == HealthPaths \cup V1Paths \cup LegacyPaths \cup {UnroutedPath}

\* Paths with a {conversation_id} segment.
IdPaths ==
    {"/api/v1/conversations/{id}", "/api/v1/conversations/{id}/message",
     "/api/v1/conversations/{id}/message/stream", "/api/conversations/{id}",
     "/api/conversations/{id}/message", "/api/conversations/{id}/message/stream"}

\* request.headers.get(...) of a header the request does not carry.
Absent == "absent"

\* Values of the X-API-Key header: not sent, sent empty, and key strings of
\* which two differ in letter case only.
KeyStrings == {"TestKey123", "testkey123", "Key2"}

KeyHeaders == {Absent, ""} \cup KeyStrings

\* Values config.API_KEYS can have: lists of non-empty key strings.
ConfiguredKeySets == {{"TestKey123"}, {"TestKey123", "Key2"}}

\* Values of the Origin header: not sent, the origin config.CORS_ORIGINS
\* lists, another origin.
Origins == {Absent, "listed", "other"}

\* The method and path pairs sent: every registered route, OPTIONS on an
\* exempt, a v1 and a legacy path, a method no route of the path takes, and
\* the path without routes.
Endpoints ==
    {<<"GET", p>> : p \in HealthPaths}
        \cup {<<"GET", "/api/v1/conversations">>, <<"POST", "/api/v1/conversations">>,
              <<"GET", "/api/v1/conversations/{id}">>,
              <<"POST", "/api/v1/conversations/{id}/message">>,
              <<"POST", "/api/v1/conversations/{id}/message/stream">>,
              <<"GET", "/api/conversations">>, <<"POST", "/api/conversations">>,
              <<"GET", "/api/conversations/{id}">>,
              <<"POST", "/api/conversations/{id}/message">>,
              <<"POST", "/api/conversations/{id}/message/stream">>}
        \cup {<<"OPTIONS", "/health">>, <<"OPTIONS", "/api/v1/conversations">>,
              <<"OPTIONS", "/api/conversations/{id}/message">>,
              <<"POST", "/api/v1/status">>, <<"GET", UnroutedPath>>}

\* The requests: method, path, conversation_id of the path (MissingConv also
\* where the path has none), X-API-Key, Origin, and whether the request
\* carries Access-Control-Request-Method.
Requests ==
    {q \in [method : Methods, path : Paths, conv : ConvIds \cup {MissingConv},
            key : KeyHeaders, origin : Origins, acrm : BOOLEAN] :
        /\ <<q.method, q.path>> \in Endpoints
        /\ q.path \notin IdPaths => q.conv = MissingConv
        /\ q.method # "OPTIONS" => ~q.acrm}

NoRequest ==
    [method |-> "none", path |-> "none", conv |-> MissingConv,
     key |-> Absent, origin |-> Absent, acrm |-> FALSE]

\* What a deliberation started by a message handler does: all stages and the
\* save succeed, a stage raises, or add_assistant_message raises.
HandlerOutcomes == {"ok", "council_raises", "save_raises"}

\* The store as one value.
StoreOf(num, msgs, title) == [num |-> num, msgs |-> msgs, title |-> title]

NoStore == StoreOf(0, [c \in ConvIds |-> <<>>], [c \in ConvIds |-> 0])

\* A response built below the middlewares: status, headers set so far, the
\* route function that ran, the calls it made, the store it left, whether an
\* exception is propagating instead of a response, and whether the request
\* went past authenticate_api_key.
Answer(code, handler, effects, st) ==
    [status |-> code, headers |-> {}, handler |-> handler, effects |-> effects,
     store |-> st, raised |-> FALSE, passed |-> TRUE]

Raise(handler, effects, st) ==
    [status |-> 0, headers |-> {}, handler |-> handler, effects |-> effects,
     store |-> st, raised |-> TRUE, passed |-> TRUE]

NoResponse == Answer(0, "none", {}, NoStore)

\* storage.get_conversation(conversation_id) is not None
ConversationFound(c, st) == c \in 1..st.num

\* A handler that appends the user message before it looks the conversation up.
CallsBefore404AddUser == {"storage.add_user_message", "storage.get_conversation"}

\* The calls a handler has made when it raises HTTPException(404).
CallsBefore404 == {"storage.get_conversation"}

\* root, health_check, get_service_status
HealthHandler(h, st) == Answer(200, h, {}, st)

list_conversations_v1(st) ==
    Answer(200, "list_conversations_v1", {"storage.list_conversations"}, st)

create_conversation_v1(st) ==
    Answer(200, "create_conversation_v1", {"storage.create_conversation"},
           [st EXCEPT !.num = @ + 1])

get_conversation_v1(c, st) ==
    IF ~ConversationFound(c, st)
    THEN Answer(404, "get_conversation_v1", CallsBefore404, st)
    ELSE Answer(200, "get_conversation_v1", {"storage.get_conversation"}, st)

\* send_message_v1 run from its first to its last line for exchange r.
send_message_v1(c, r, out, st) ==
    IF ~ConversationFound(c, st)
    THEN Answer(404, "send_message_v1", CallsBefore404, st)
    ELSE LET first == IsFirstMessage(st.msgs[c])
             st1 == [st EXCEPT !.msgs[c] = Append(@, UserMessage(r))]
             st2 == IF first THEN [st1 EXCEPT !.title[c] = r] ELSE st1
             st3 == [st2 EXCEPT !.msgs[c] = Append(@, AssistantMessage(r, r, r, r))]
             calls == {"storage.get_conversation", "storage.add_user_message", "run_full_council"}
                         \cup (IF first THEN {"generate_conversation_title",
                                              "storage.update_conversation_title"}
                                        ELSE {})
         IN CASE out = "council_raises" -> Raise("send_message_v1", calls, st2)
              [] out = "save_raises" ->
                    Raise("send_message_v1", calls \cup {"storage.add_assistant_message"}, st2)
              [] OTHER ->
                    Answer(200, "send_message_v1",
                           calls \cup {"storage.add_assistant_message"}, st3)

\* send_message_stream_v1 and its event_generator run to the end of the
\* stream for exchange r; the response has started with status 200 before
\* the generator runs, and the generator turns its exceptions into events.
send_message_stream_v1(c, r, out, st) ==
    IF ~ConversationFound(c, st)
    THEN Answer(404, "send_message_stream_v1", CallsBefore404, st)
    ELSE LET first == IsFirstMessage(st.msgs[c])
             st1 == [st EXCEPT !.msgs[c] = Append(@, UserMessage(r))]
             st2 == IF first THEN [st1 EXCEPT !.title[c] = r] ELSE st1
             st3 == [st2 EXCEPT !.msgs[c] = Append(@, AssistantMessage(r, r, r, r))]
             calls == {"storage.get_conversation", "storage.add_user_message",
                       "stage1_collect_responses", "yield"}
                         \cup (IF first THEN {"generate_conversation_title"} ELSE {})
             joined == IF first THEN {"storage.update_conversation_title"} ELSE {}
         IN CASE out = "council_raises" ->
                    Answer(200, "send_message_stream_v1", calls, st1)
              [] out = "save_raises" ->
                    Answer(200, "send_message_stream_v1",
                           calls \cup joined \cup {"storage.add_assistant_message"}, st2)
              [] OTHER ->
                    Answer(200, "send_message_stream_v1",
                           calls \cup joined \cup {"storage.add_assistant_message"}, st3)

V1Handlers ==
    {"list_conversations_v1", "create_conversation_v1", "get_conversation_v1",
     "send_message_v1", "send_message_stream_v1"}

LegacyHandlers ==
    {"list_conversations", "create_conversation", "get_conversation",
     "send_message", "send_message_stream"}

\* Legacy functions that delegate to the wrong v1 function.
LegacyTargetCrossed(h) ==
    CASE h = "list_conversations" -> "list_conversations_v1"
      [] h = "create_conversation" -> "create_conversation_v1"
      [] h = "get_conversation" -> "get_conversation_v1"
      [] h = "send_message" -> "send_message_stream_v1"
      [] h = "send_message_stream" -> "send_message_v1"

\* The v1 function each legacy function awaits and returns.
LegacyTarget(h) ==
    CASE h = "list_conversations" -> "list_conversations_v1"
      [] h = "create_conversation" -> "create_conversation_v1"
      [] h = "get_conversation" -> "get_conversation_v1"
      [] h = "send_message" -> "send_message_v1"
      [] h = "send_message_stream" -> "send_message_stream_v1"

RunV1(h, c, r, out, st) ==
    CASE h = "list_conversations_v1" -> list_conversations_v1(st)
      [] h = "create_conversation_v1" -> create_conversation_v1(st)
      [] h = "get_conversation_v1" -> get_conversation_v1(c, st)
      [] h = "send_message_v1" -> send_message_v1(c, r, out, st)
      [] h = "send_message_stream_v1" -> send_message_stream_v1(c, r, out, st)

\* The route function h called with the path's conversation_id.
RunHandler(h, c, r, out, st) ==
    IF h \in LegacyHandlers
    THEN [RunV1(LegacyTarget(h), c, r, out, st) EXCEPT !.handler = h]
    ELSE IF h \in V1Handlers THEN RunV1(h, c, r, out, st)
    ELSE HealthHandler(h, st)

\* The route decorators: the function registered for a method and path;
\* "no_method" where the path is registered for other methods only,
\* "no_route" where it is not registered.
RouteOf(method, path) ==
    CASE path = UnroutedPath -> "no_route"
      [] method = "GET" /\ path = "/" -> "root"
      [] method = "GET" /\ path = "/health" -> "health_check"
      [] method = "GET" /\ path = "/api/v1/status" -> "get_service_status"
      [] method = "GET" /\ path = "/api/v1/conversations" -> "list_conversations_v1"
      [] method = "POST" /\ path = "/api/v1/conversations" -> "create_conversation_v1"
      [] method = "GET" /\ path = "/api/v1/conversations/{id}" -> "get_conversation_v1"
      [] method = "POST" /\ path = "/api/v1/conversations/{id}/message" -> "send_message_v1"
      [] method = "POST" /\ path = "/api/v1/conversations/{id}/message/stream" ->
            "send_message_stream_v1"
      [] method = "GET" /\ path = "/api/conversations" -> "list_conversations"
      [] method = "POST" /\ path = "/api/conversations" -> "create_conversation"
      [] method = "GET" /\ path = "/api/conversations/{id}" -> "get_conversation"
      [] method = "POST" /\ path = "/api/conversations/{id}/message" -> "send_message"
      [] method = "POST" /\ path = "/api/conversations/{id}/message/stream" ->
            "send_message_stream"
      [] OTHER -> "no_method"

\* The router with its exception handlers: HTTPException becomes a response
\* here, any other exception propagates.
Router(req, r, out, st) ==
    LET h == RouteOf(req.method, req.path)
    IN CASE h = "no_route" -> Answer(404, "none", {}, st)
         [] h = "no_method" -> Answer(405, "none", {}, st)
         [] OTHER -> RunHandler(h, req.conv, r, out, st)

\* CORSMiddleware(allow_origins=config.CORS_ORIGINS, allow_credentials=True,
\* allow_methods=["*"], allow_headers=["*"]).
OriginAllowed(corsAll, origin) == corsAll \/ origin = "listed"

AllowOrigin == "access-control-allow-origin"

AllowOriginHeader(corsAll, origin) == <<AllowOrigin, IF corsAll THEN "*" ELSE origin>>

\* A request without Origin passes untouched; a preflight (OPTIONS with
\* Access-Control-Request-Method) is answered here, 200 for an allowed
\* origin and 400 otherwise; any other response gets the allow-origin header
\* when the origin is allowed.
CorsLayer(corsAll, req, st, inner) ==
    IF req.origin = Absent THEN inner
    ELSE IF req.method = "OPTIONS" /\ req.acrm
    THEN IF OriginAllowed(corsAll, req.origin)
         THEN [Answer(200, "none", {}, st) EXCEPT
                  !.headers = {AllowOriginHeader(corsAll, req.origin),
                               <<"access-control-allow-methods",
                                 "DELETE, GET, HEAD, OPTIONS, PATCH, POST, PUT">>}]
         ELSE Answer(400, "none", {}, st)
    ELSE IF inner.raised THEN inner
    ELSE IF OriginAllowed(corsAll, req.origin)
    THEN [inner EXCEPT !.headers = @ \cup {AllowOriginHeader(corsAll, req.origin)}]
    ELSE inner

VersionHeaders ==
    {<<"X-API-Version", API_VERSION>>, <<"X-Service-Version", SERVICE_VERSION>>}

\* add_version_headers: response = await call_next(request); the two headers
\* are set on the response call_next returned.
add_version_headers(inner) ==
    IF inner.raised THEN inner
    ELSE [inner EXCEPT !.headers = @ \cup VersionHeaders]

\* An exempt list without the status path.
ExemptPathsHealthOnly == {"/", "/health"}

\* if request.url.path in ["/", "/health", "/api/v1/status"]
ExemptPaths == {"/", "/health", "/api/v1/status"}

Lower(k) == IF k = "TestKey123" THEN "testkey123" ELSE k

\* A key comparison that ignores letter case.
KeyInIgnoringCase(k, keys) == \E x \in keys : Lower(x) = Lower(k)

\* api_key in config.API_KEYS
KeyIn(k, keys) == k \in keys

Unauthorized(st) ==
    [status |-> 401, headers |-> {}, handler |-> "none", effects |-> {},
     store |-> st, raised |-> FALSE, passed |-> FALSE]

\* authenticate_api_key: exempt paths and a disabled check pass to call_next;
\* otherwise a missing (or empty) key and a key not configured return 401.
authenticate_api_key(enabled, keys, req, st, inner) ==
    IF req.path \in ExemptPaths THEN inner
    ELSE IF ~enabled THEN inner
    ELSE IF req.key = Absent \/ req.key = "" THEN Unauthorized(st)
    ELSE IF ~KeyIn(req.key, keys) THEN Unauthorized(st)
    ELSE inner

\* An exception no handler caught is answered 500 by the server-error layer
\* around all middlewares.
ServerErrorLayer(inner) ==
    IF inner.raised THEN [inner EXCEPT !.status = 500, !.headers = {}, !.raised = FALSE]
    ELSE inner

\* The application: middlewares wrap the router in the reverse of the order
\* they were added (CORS first, add_version_headers, authenticate_api_key
\* last and therefore outermost).
Serve(enabled, keys, corsAll, req, r, out, st) ==
    ServerErrorLayer(
        authenticate_api_key(enabled, keys, req, st,
            add_version_headers(
                CorsLayer(corsAll, req, st,
                    Router(req, r, out, st)))))

\* Whether the deliberation outcome matters to the response of a request.
Deliberates(res) ==
    \E x \in {"run_full_council", "stage1_collect_responses"} : x \in res.effects

CurrentStore == StoreOf(numConvs, convMsgs, convTitle)

\* The configuration main.py reads as config.API_AUTH_ENABLED,
\* config.API_KEYS and config.CORS_ORIGINS, fixed at process start: a
\* boolean, a list of key strings, and the allowed origins.
HttpConfigure(enabled, keys, corsAll) ==
    /\ hPc = "start"
    /\ cfgAuthEnabled' = enabled
    /\ cfgApiKeys' = keys
    /\ cfgCorsAll' = corsAll
    /\ hPc' = "idle"
    /\ UNCHANGED <<hCount, hReq, hOut, hResp, hBefore, fanVars, storeVars, reqVars,
                   rankVars>>

\* A request arrives.  Conversation ids sent are MissingConv or a
\* conversation that exists.
HttpReceive(req) ==
    /\ hPc = "idle"
    /\ hCount < MaxHttpReq
    /\ req.conv <= numConvs
    /\ RouteOf(req.method, req.path) \in {"create_conversation_v1", "create_conversation"}
          => numConvs < MaxConv
    /\ hReq' = req
    /\ hBefore' = CurrentStore
    /\ hCount' = hCount + 1
    /\ hPc' = "received"
    /\ UNCHANGED <<cfgAuthEnabled, cfgApiKeys, cfgCorsAll, hOut, hResp,
                   fanVars, storeVars, reqVars, rankVars>>

\* The application serves the request to its end.
HttpRespond(out) ==
    /\ hPc = "received"
    /\ LET res == Serve(cfgAuthEnabled, cfgApiKeys, cfgCorsAll, hReq, hCount, out,
                        CurrentStore)
       IN /\ out # "ok" => Deliberates(res)
          /\ hResp' = res
          /\ numConvs' = res.store.num
          /\ convMsgs' = res.store.msgs
          /\ convTitle' = res.store.title
    /\ hOut' = out
    /\ hPc' = "responded"
    /\ UNCHANGED <<cfgAuthEnabled, cfgApiKeys, cfgCorsAll, hCount, hReq, hBefore,
                   fanVars, reqVars, rankVars>>

\* The exchange is over.
HttpClose ==
    /\ hPc = "responded"
    /\ hPc' = "idle"
    /\ hReq' = NoRequest
    /\ hOut' = "ok"
    /\ hResp' = NoResponse
    /\ hBefore' = CurrentStore
    /\ UNCHANGED <<cfgAuthEnabled, cfgApiKeys, cfgCorsAll, hCount,
                   fanVars, storeVars, reqVars, rankVars>>

NextHttp ==
    \/ \E enabled \in BOOLEAN, keys \in ConfiguredKeySets, corsAll \in BOOLEAN :
          HttpConfigure(enabled, keys, corsAll)
    \/ \E req \in Requests : HttpReceive(req)
    \/ \E out \in HandlerOutcomes : HttpRespond(out)
    \/ HttpClose

SpecHttp == Init /\ [][NextHttp]_vars

(***************************************************************************)
(* Anonymizer and rank aggregator (backend/council.py, from the design)    *)
(***************************************************************************)
\* Ranking submissions of one deliberation.
MaxSubs == 2

\* "Response A", "Response B", ...: the label of the i-th labelled response.
LabelOf(i) ==
    <<"Response A", "Response B", "Response C", "Response D", "Response E",
      "Response F">>[i]

\* Stage-1 bundles: an entry per model, holding content or an error.
Bundles == [Models -> {"content", "error"}]

\* Orderings of a finite set, as sequences without repetition.
Orderings(S) ==
    {f \in [1..Cardinality(S) -> S] : \A i, j \in DOMAIN f : i # j => f[i] # f[j]}

\* A labelling that takes every entry of the bundle.
LabelledModelsAll(bundle) == DOMAIN bundle

\* The entries the anonymizer labels: those with a non-error response.
LabelledModels(bundle) == {m \in DOMAIN bundle : bundle[m] = "content"}

\* anonymize: the i-th model of the chosen order gets the i-th label.
Anonymize(order) == [l \in {LabelOf(i) : i \in DOMAIN order} |->
                        order[CHOOSE i \in DOMAIN order : LabelOf(i) = l]]

RangeOf(f) == {f[x] : x \in DOMAIN f}

\* The rankings a model may submit over k labels: unparseable (no label
\* read), all labels in label order, in reverse order, rotated by one, and a
\* partial ranking of the first label only.
RankingChoices(k) ==
    LET full == [i \in 1..k |-> LabelOf(i)]
    IN {<<>>, full, [i \in 1..k |-> LabelOf(k + 1 - i)],
        [i \in 1..k |-> LabelOf((i % k) + 1)], SubSeq(full, 1, IF k > 0 THEN 1 ELSE 0)}

\* points(rank) = N - rank
Points(n, rank) == n - rank

\* The points one submission gives model m: N - rank for each position that
\* holds a label of m, N being the number of labelled responses.
PointsFrom(ranking, m, l2m) ==
    LET n == Cardinality(DOMAIN l2m)
        at == {i \in DOMAIN ranking : ranking[i] \in DOMAIN l2m /\ l2m[ranking[i]] = m}
        RECURSIVE Sum(_)
        Sum(S) == IF S = {} THEN 0
                  ELSE LET i == CHOOSE x \in S : TRUE
                       IN Points(n, i) + Sum(S \ {i})
    IN Sum(at)

\* Total score of m: the submissions are folded in the order they arrived.
RECURSIVE Score(_, _, _)
Score(subs, m, l2m) ==
    IF subs = <<>> THEN 0
    ELSE PointsFrom(Head(subs), m, l2m) + Score(Tail(subs), m, l2m)

\* A secondary key taken from the order of arrival: the first place at which
\* a label of m was read (submission, then position), after all of these for
\* a model no submission names.
TieBreakKeyFirstSeen(subs, m, l2m) ==
    LET seen == {<<i, j>> \in (DOMAIN subs) \X (1..Cardinality(DOMAIN l2m)) :
                    /\ j \in DOMAIN subs[i]
                    /\ subs[i][j] \in DOMAIN l2m
                    /\ l2m[subs[i][j]] = m}
        keys == {100 * p[1] + p[2] : p \in seen}
    IN IF keys = {} THEN 10000 + m
       ELSE CHOOSE k \in keys : \A x \in keys : k <= x

\* The stable secondary key of the sort: the model identifier.
TieBreakKey(subs, m, l2m) == m

\* aggregate: total score per labelled model, sorted descending by score,
\* ties broken by the secondary key; rank i is the i-th place.
Aggregate(subs, l2m) ==
    LET ms == RangeOf(l2m)
        Before(a, b) ==
            \/ Score(subs, a, l2m) > Score(subs, b, l2m)
            \/ /\ Score(subs, a, l2m) = Score(subs, b, l2m)
               /\ TieBreakKey(subs, a, l2m) < TieBreakKey(subs, b, l2m)
        Place(m) == 1 + Cardinality({x \in ms : Before(x, m)})
    IN [i \in 1..Cardinality(ms) |->
           LET m == CHOOSE x \in ms : Place(x) = i
           IN [model |-> m, score |-> Score(subs, m, l2m), rank |-> i]]

\* Stage 1 has produced its bundle.
RankStage1(bundle) ==
    /\ rkPc = "start"
    /\ rkBundle' = bundle
    /\ rkPc' = "stage1"
    /\ UNCHANGED <<rkLabels, rkSubs, rkAgg, fanVars, storeVars, reqVars, httpVars>>

\* Stage 2 starts: the bundle is anonymized in an order of the anonymizer's
\* choosing; a bundle without any response fails the deliberation.
RankAnonymize(order) ==
    /\ rkPc = "stage1"
    /\ order \in Orderings(LabelledModels(rkBundle))
    /\ IF order = <<>>
       THEN rkPc' = "failed" /\ UNCHANGED rkLabels
       ELSE rkPc' = "ranking" /\ rkLabels' = Anonymize(order)
    /\ UNCHANGED <<rkBundle, rkSubs, rkAgg, fanVars, storeVars, reqVars, httpVars>>

\* A ranking submission arrives.
RankSubmit(ranking) ==
    /\ rkPc = "ranking"
    /\ Len(rkSubs) < MaxSubs
    /\ ranking \in RankingChoices(Cardinality(DOMAIN rkLabels))
    /\ rkSubs' = Append(rkSubs, ranking)
    /\ UNCHANGED <<rkPc, rkBundle, rkLabels, rkAgg, fanVars, storeVars, reqVars, httpVars>>

\* calculate_aggregate_rankings(stage2_results, label_to_model)
RankAggregate ==
    /\ rkPc = "ranking"
    /\ rkAgg' = Aggregate(rkSubs, rkLabels)
    /\ rkPc' = "aggregated"
    /\ UNCHANGED <<rkBundle, rkLabels, rkSubs, fanVars, storeVars, reqVars, httpVars>>

\* Every sequence over Models of length up to MaxModels without repetition.
ModelOrders == UNION {Orderings(S) : S \in SUBSET Models}

\* Every ranking a submission can be, for any number of labels.
AllRankings == UNION {RankingChoices(k) : k \in 0..MaxModels}

NextRank ==
    \/ \E bundle \in Bundles : RankStage1(bundle)
    \/ \E order \in ModelOrders : RankAnonymize(order)
    \/ \E ranking \in AllRankings : RankSubmit(ranking)
    \/ RankAggregate

SpecRank == Init /\ [][NextRank]_vars

(***************************************************************************)
(* Helpers for the properties                                              *)
(***************************************************************************)
Has(s, x) == \E i \in DOMAIN s : s[i] = x

\* Position of the first x in sequence s, 0 when s holds no x.
Pos(s, x) ==
    IF Has(s, x)
    THEN CHOOSE i \in DOMAIN s : s[i] = x /\ \A j \in 1..(i - 1) : s[j] # x
    ELSE 0

Count(s, x) == Cardinality({i \in DOMAIN s : s[i] = x})

\* x occurs in s, and before the first y if there is one.
Precedes(s, x, y) == \E i \in DOMAIN s : s[i] = x /\ \A j \in 1..i : s[j] # y

IsPrefix(s, t) == Len(s) <= Len(t) /\ \A i \in DOMAIN s : s[i] = t[i]

IsEvent(x) == x \in EventTypes

IsStageEvent(x) == x \in StageEvents

\* The events request r has yielded so far, in order.
Events(r) == SelectSeq(log[r], IsEvent)

StageEventsOf(r) == SelectSeq(log[r], IsStageEvent)

StageOrder ==
    <<"stage1_start", "stage1_complete", "stage2_start", "stage2_complete",
      "stage3_start", "stage3_complete">>

Streams == {r \in Reqs : reqKind[r] = "stream"}

Syncs == {r \in Reqs : reqKind[r] = "sync"}

FanRange == {fanModels[i] : i \in DOMAIN fanModels}

Succeeded(i) == fanUpstream[i].kind \in {"ok", "ok_no_content"}

(***************************************************************************)
(* Properties of the fan-out (SpecFan)                                     *)
(***************************************************************************)
\* C1: query_models_parallel does not raise, and the mapping it returns has
\* exactly the requested models as keys, whatever each call's outcome was.
C1_FanOutCompleteness ==
    /\ fanPc # "raised"
    /\ fanPc = "returned" => DOMAIN fanResult = FanRange

\* A fan-out of two or more models has returned with at least one model
\* failed and at least one answered.
C1_Witness ==
    /\ fanPc = "returned"
    /\ Len(fanModels) >= 2
    /\ \E i, j \in DOMAIN fanModels :
          /\ Succeeded(i)
          /\ fanUpstream[j].kind \in {"http_other", "timeout", "malformed"}

\* C2: every model whose own call succeeded has its content in the result,
\* whatever the calls of the other models did.
C2_FanOutIsolation ==
    fanPc = "returned" =>
        \A i \in DOMAIN fanModels :
            Succeeded(i) =>
                /\ fanModels[i] \in DOMAIN fanResult
                /\ ~fanResult[fanModels[i]].isNone
                /\ fanResult[fanModels[i]].content = fanUpstream[i].content

\* A returned fan-out in which a model answered with a text while another
\* model's call failed with a gateway error.
C2_Witness ==
    /\ fanPc = "returned"
    /\ \E i, j \in DOMAIN fanModels :
          /\ i # j
          /\ fanUpstream[i].kind = "ok"
          /\ fanUpstream[j].kind \in {"http401", "connect_error"}
          /\ fanResult[fanModels[j]].isNone

\* C3: no completed query_model call let an exception out; each failure of
\* the remote call (and each unusable key) produced the failure value None.
C3_QueryModelNeverRaises ==
    \A i \in fanDone :
        /\ ~responses[i].raised
        /\ (apiKey # "valid" \/ ~Succeeded(i)) => responses[i].isNone

\* Calls that failed by timeout, by connection error and by a malformed body
\* have all completed in one fan-out.
C3_Witness ==
    /\ apiKey = "valid"
    /\ \E i, j, k \in fanDone :
          /\ fanUpstream[i].kind = "timeout"
          /\ fanUpstream[j].kind = "connect_error"
          /\ fanUpstream[k].kind = "malformed"

(***************************************************************************)
(* Properties of the message endpoints (Spec)                              *)
(***************************************************************************)
CallOf(n) == <<"s1_call", "s2_call", "s3_call">>[n]

RaiseOf(n) == <<"s1_raise", "s2_raise", "s3_raise">>[n]

LastOf(s) == s[Len(s)]

\* The assistant messages request r has stored, as <<conversation, index>>.
AssistantSlots(r) ==
    {sl \in UNION {{<<c, i>> : i \in DOMAIN convMsgs[c]} : c \in ConvIds} :
        /\ convMsgs[sl[1]][sl[2]].role = "assistant"
        /\ convMsgs[sl[1]][sl[2]].req = r}

\* The stage events and the stage calls of a stream whose stages all return.
StagePath ==
    <<"stage1_start", "s1_call", "s1_ret", "stage1_complete",
      "stage2_start", "s2_call", "s2_ret", "stage2_complete",
      "stage3_start", "s3_call", "s3_ret", "stage3_complete">>

IsStageStep(x) == \E i \in DOMAIN StagePath : StagePath[i] = x

\* C4: in every stream the stage events and stage calls made so far are a
\* prefix of StagePath: each stage event occurs at most once and in stage
\* order, a complete only after its start, every stage is called after its
\* start event and has returned before its complete event, and stage N+1 is
\* called only after stage N has returned.
C4_StageOrder ==
    \A r \in Streams : IsPrefix(SelectSeq(log[r], IsStageStep), StagePath)

\* A stream has yielded all six stage events.
C4_Witness == \E r \in Streams : StageEventsOf(r) = StageOrder

\* C5: a stream holds at most one terminal event, nothing follows it, the
\* generator is over once it is yielded, and a generator that is over has
\* yielded one as its last event, whichever call failed on the way.
C5_TerminalEvent ==
    \A r \in Streams :
        LET ev == Events(r)
        IN /\ Count(ev, "complete") + Count(ev, "error") <= 1
           /\ \A i \in DOMAIN ev : ev[i] \in TerminalEvents => i = Len(ev)
           /\ (\E i \in DOMAIN ev : ev[i] \in TerminalEvents) => reqPc[r] = "done"
           /\ (reqPc[r] = "done" /\ status[r] = 200) =>
                 /\ Len(ev) > 0
                 /\ LastOf(ev) \in TerminalEvents
                 /\ LastOf(log[r]) = LastOf(ev)

\* One stream has ended with complete, another with error after its title
\* task failed.
C5_Witness ==
    \E r, q \in Streams :
        /\ reqPc[r] = "done" /\ Has(log[r], "complete")
        /\ reqPc[q] = "done" /\ Has(log[q], "title_raise") /\ Has(log[q], "error")

C6_Inv ==
    \A r \in Streams :
        \A n \in 1..3 :
            Has(log[r], RaiseOf(n)) =>
                /\ Events(r) = SubSeq(StageOrder, 1, 2 * n - 1) \o <<"error">>
                /\ SubSeq(log[r], Len(log[r]) - 1, Len(log[r])) = <<RaiseOf(n), "error">>
                /\ \A m \in (n + 1)..3 : ~Has(log[r], CallOf(m))
                /\ reqPc[r] = "done"

\* C6: a stream whose stage N failed consists of the stage events up to
\* stageN_start followed by one error event, with which it ends; no later
\* stage is called; and the events of a stream only ever grow (an event
\* once yielded stays in place).
C6_PartialEventsThenError ==
    /\ []C6_Inv
    /\ [][\A r \in Reqs : IsPrefix(Events(r), Events(r)')]_vars

\* A stream failed in stage 2, after the stage-1 events were yielded.
C6_Witness ==
    \E r \in Streams :
        /\ Has(log[r], "s2_raise")
        /\ Has(log[r], "stage1_complete")
        /\ LastOf(log[r]) = "error"

TitleOverlapsStages(r) ==
    /\ Has(log[r], "s1_call") =>
          ~(Has(log[r], "title_join") /\ Pos(log[r], "title_join") < Pos(log[r], "s1_call"))
    /\ Has(log[r], "title_join") => Precedes(log[r], "s3_ret", "title_join")
    /\ Has(log[r], "add_assistant") => Precedes(log[r], "title_join", "add_assistant")

\* C8 as stated: title generation overlaps the stages in the streaming and in
\* the non-streaming endpoint.
C8_TitleConcurrentInBothEndpoints ==
    \A r \in Reqs : Has(log[r], "title_start") => TitleOverlapsStages(r)

\* C8 amended: in the streaming endpoint stage 1 is called in the step that
\* creates the title task and the title overlaps the stages; in the
\* non-streaming endpoint the title call is awaited before stage 1 is called.
C8_TitleConcurrentInStream ==
    \A r \in Reqs :
        Has(log[r], "title_start") =>
            /\ r \in Streams => Has(log[r], "s1_call") /\ TitleOverlapsStages(r)
            /\ r \in Syncs =>
                  (Has(log[r], "s1_call") => Precedes(log[r], "title_join", "s1_call"))

\* A first-message stream has awaited its title and stored its assistant
\* message, and a first-message non-streaming request has awaited its title
\* and called stage 1.
C8_Witness ==
    /\ \E r \in Streams : Has(log[r], "title_join") /\ Has(log[r], "add_assistant")
    /\ \E q \in Syncs : Has(log[q], "title_join") /\ Has(log[q], "s1_call")

\* C9: a request that has stored its user message has started title
\* generation exactly if the conversation held no message when the request
\* was received; a request that started it stored the first message of its
\* conversation; title_complete is yielded only where it was started.
C9_TitleOnlyForFirstMessage ==
    \A r \in Reqs :
        /\ Has(log[r], "add_user") => (Has(log[r], "title_start") <=> heldAtRecv[r] = 0)
        /\ Has(log[r], "title_start") => convMsgs[reqConv[r]][1] = UserMessage(r)
        /\ Has(log[r], "title_complete") => Has(log[r], "title_start")

\* C10: a request has stored its user message before it calls stage 1; it
\* stores at most one assistant message, in its own conversation, after
\* stage 3 has returned, holding the three stage results of the request.
C10_MessageAppends ==
    \A r \in Reqs :
        LET slots == AssistantSlots(r)
        IN /\ Has(log[r], "s1_call") =>
                 /\ Precedes(log[r], "add_user", "s1_call")
                 /\ \E i \in DOMAIN convMsgs[reqConv[r]] :
                       convMsgs[reqConv[r]][i] = UserMessage(r)
           /\ Count(log[r], "add_assistant") <= 1
           /\ Cardinality(slots) <= 1
           /\ (slots # {}) <=> Has(log[r], "add_assistant")
           /\ \A sl \in slots :
                 /\ sl[1] = reqConv[r]
                 /\ Precedes(log[r], "s3_ret", "add_assistant")
                 /\ convMsgs[sl[1]][sl[2]].stage1 = r
                 /\ convMsgs[sl[1]][sl[2]].stage2 = r
                 /\ convMsgs[sl[1]][sl[2]].stage3 = r

\* A stream and a non-streaming request have both stored their assistant
\* message.
C10_Witness ==
    \E r \in Streams, q \in Syncs :
        AssistantSlots(r) # {} /\ AssistantSlots(q) # {}

\* The non-streaming caller of request r received the stage-1, stage-2 and
\* stage-3 results: the handler reached its return statement.
ReturnsStages(r) == r \in Syncs /\ reqPc[r] = "done" /\ status[r] = 200

\* C11: a request whose add_assistant_message failed still hands the
\* deliberation to its caller: the non-streaming caller receives the three
\* stage results, the stream keeps its six stage events and ends with error.
C11_PersistFailureKeepsResults ==
    \A r \in Reqs :
        Has(log[r], "add_assistant_raise") =>
            /\ r \in Syncs => ReturnsStages(r)
            /\ r \in Streams =>
                  /\ StageEventsOf(r) = StageOrder
                  /\ LastOf(Events(r)) = "error"

(***************************************************************************)
(* Properties of the HTTP application (SpecHttp)                           *)
(***************************************************************************)
Responded == hPc = "responded"

RoutedHandler == RouteOf(hReq.method, hReq.path)

HasHeader(resp, name) == \E h \in resp.headers : h[1] = name

\* The route functions that take a conversation_id.
ConversationHandlers ==
    {"get_conversation_v1", "send_message_v1", "send_message_stream_v1",
     "get_conversation", "send_message", "send_message_stream"}

\* The /api/v1 path a legacy path stands for.
V1PathOf(path) ==
    CASE path = "/api/conversations" -> "/api/v1/conversations"
      [] path = "/api/conversations/{id}" -> "/api/v1/conversations/{id}"
      [] path = "/api/conversations/{id}/message" -> "/api/v1/conversations/{id}/message"
      [] path = "/api/conversations/{id}/message/stream" ->
            "/api/v1/conversations/{id}/message/stream"
      [] OTHER -> path

\* C12: with authentication enabled, a request to a path other than the
\* health and status paths gets past authenticate_api_key exactly if its
\* X-API-Key value is one of the configured keys, letter for letter; then the
\* function registered for its method and path runs; otherwise the response
\* is 401, no route function ran, no call was made and the store is as it was.
C12_AuthGate ==
    (Responded /\ cfgAuthEnabled /\ hReq.path \notin HealthPaths) =>
        LET valid == \E k \in cfgApiKeys : k = hReq.key
        IN /\ hResp.passed <=> valid
           /\ (valid /\ RoutedHandler \notin {"no_route", "no_method"}) =>
                 hResp.handler = RoutedHandler
           /\ ~valid =>
                 /\ hResp.status = 401
                 /\ hResp.handler = "none"
                 /\ hResp.effects = {}
                 /\ CurrentStore = hBefore

\* A message request for an existing conversation was answered 401 because
\* its key differs from the configured key in letter case only.
C12_Witness ==
    /\ Responded /\ cfgAuthEnabled
    /\ hReq.key = "testkey123" /\ cfgApiKeys = {"TestKey123"}
    /\ RoutedHandler = "send_message_v1"
    /\ hReq.conv \in 1..numConvs
    /\ hResp.status = 401

\* C13: a request to '/', '/health' or '/api/v1/status' is never answered
\* 401 and gets past authenticate_api_key, a GET of them runs its route
\* function and is answered 200, with any configuration and any X-API-Key;
\* and with authentication disabled no request at all is answered 401.
C13_HealthNeverRejected ==
    Responded =>
        /\ hReq.path \in HealthPaths =>
              /\ hResp.status # 401
              /\ hResp.passed
              /\ hReq.method = "GET" =>
                    hResp.handler = RoutedHandler /\ hResp.status = 200
        /\ ~cfgAuthEnabled => hResp.status # 401

\* With authentication enabled, the status endpoint answered 200 to a
\* request carrying a key that is not configured.
C13_Witness ==
    /\ Responded /\ cfgAuthEnabled
    /\ hReq.path = "/api/v1/status" /\ hReq.method = "GET"
    /\ hReq.key = "testkey123" /\ hReq.key \notin cfgApiKeys
    /\ hResp.status = 200

\* C14: every response carries X-API-Version = 'v1' and X-Service-Version =
\* '1.2.0', whatever the route, the method and the status.
C14_VersionHeadersOnEveryResponse ==
    Responded =>
        /\ <<"X-API-Version", "v1">> \in hResp.headers
        /\ <<"X-Service-Version", "1.2.0">> \in hResp.headers

\* C15: a preflight from an allowed origin to an API route is answered 200 by
\* the CORS layer, and every response to a request from an allowed origin
\* carries access-control-allow-origin, in every configuration.
C15_CorsInEveryConfiguration ==
    (Responded /\ hReq.origin # Absent /\ OriginAllowed(cfgCorsAll, hReq.origin)) =>
        /\ HasHeader(hResp, "access-control-allow-origin")
        /\ (hReq.method = "OPTIONS" /\ hReq.acrm /\ hReq.path \notin HealthPaths) =>
              hResp.status = 200 /\ hResp.handler = "none"

\* C16: a get-conversation, send-message or send-message-stream request that
\* reached its route function with a conversation id the store does not hold
\* is answered 404; the store is as it was, and the only call made is the
\* lookup (no user message, no title generation, no model call, no event).
C16_MissingConversation ==
    (/\ Responded
     /\ hResp.handler \in ConversationHandlers
     /\ hReq.conv \notin 1..hBefore.num) =>
        /\ hResp.status = 404
        /\ CurrentStore = hBefore
        /\ hResp.effects \subseteq {"storage.get_conversation"}

\* With a conversation in the store, a stream request for a conversation id
\* that does not exist was answered 404.
C16_Witness ==
    /\ Responded
    /\ numConvs > 0 /\ Len(convMsgs[1]) > 0
    /\ hResp.handler = "send_message_stream_v1"
    /\ hReq.conv = MissingConv
    /\ hResp.status = 404

\* C17: the response to a request on a legacy path, and the store it leaves,
\* are those the same request on the corresponding /api/v1 path produces
\* from the same store with the same configuration and the same deliberation
\* outcome: same status, headers, calls and store, and the same decision of
\* authenticate_api_key.
C17_LegacyAlias ==
    (Responded /\ hReq.path \in LegacyPaths) =>
        LET v1 == Serve(cfgAuthEnabled, cfgApiKeys, cfgCorsAll,
                        [hReq EXCEPT !.path = V1PathOf(@)], hCount, hOut, hBefore)
        IN /\ hResp.status = v1.status
           /\ hResp.headers = v1.headers
           /\ hResp.effects = v1.effects
           /\ hResp.passed = v1.passed
           /\ (hResp.handler = "none") <=> (v1.handler = "none")
           /\ CurrentStore = v1.store

\* A legacy send-message request was answered 200 and changed the store.
C17_Witness ==
    /\ Responded
    /\ hReq.path = "/api/conversations/{id}/message"
    /\ hResp.status = 200
    /\ CurrentStore # hBefore

(***************************************************************************)
(* Properties of the gateway's failure value (SpecFan)                     *)
(***************************************************************************)
ErrorKinds == {"Unauthenticated", "RateLimited", "Unreachable", "MalformedUpstream", "Timeout"}

\* The error field of a value query_model returned, "none" where the value
\* has no such field.
ErrorOf(v) == IF "error" \in DOMAIN v THEN v.error ELSE "none"

\* The call of position i failed: the key was unusable or the remote call
\* did not produce a completion.
CallFailed(i) == apiKey # "valid" \/ ~Succeeded(i)

Answered == {m \in DOMAIN rkBundle : rkBundle[m] = "content"}

\* C19: the label-to-model mapping is one-to-one between its labels and the
\* models that answered in stage 1: no model has two labels, every model
\* that answered has a label, and no model that failed has one.
C19_LabelBijection ==
    rkPc \in {"ranking", "aggregated"} =>
        /\ \A l1, l2 \in DOMAIN rkLabels : rkLabels[l1] = rkLabels[l2] => l1 = l2
        /\ RangeOf(rkLabels) = Answered
        /\ Cardinality(DOMAIN rkLabels) = Cardinality(Answered)

\* A bundle in which one model failed and two or more answered was labelled.
C19_Witness ==
    /\ rkPc = "ranking"
    /\ \E m \in DOMAIN rkBundle : rkBundle[m] = "error"
    /\ Cardinality(Answered) >= 2

\* The submissions s taken in the order p.
Reordered(s, p) == [i \in DOMAIN s |-> s[p[i]]]

\* C20: the aggregate ranking computed from the submissions in their order
\* of arrival is the one computed from them in any other order; it lists
\* every labelled model once, rank i at place i, in descending score, and
\* models of equal score in the order of their identifiers.
C20_AggregateOrderIndependent ==
    rkPc = "aggregated" =>
        /\ \A p \in Orderings(DOMAIN rkSubs) :
              Aggregate(Reordered(rkSubs, p), rkLabels) = rkAgg
        /\ {rkAgg[i].model : i \in DOMAIN rkAgg} = RangeOf(rkLabels)
        /\ \A i \in DOMAIN rkAgg : rkAgg[i].rank = i
        /\ \A i, j \in DOMAIN rkAgg :
              i < j =>
                 \/ rkAgg[i].score > rkAgg[j].score
                 \/ /\ rkAgg[i].score = rkAgg[j].score
                    /\ rkAgg[i].model < rkAgg[j].model

\* Two different submissions were aggregated and left two models with the
\* same positive score.
C20_Witness ==
    /\ rkPc = "aggregated"
    /\ Len(rkSubs) >= 2
    /\ rkSubs[1] # rkSubs[2]
    /\ \E i, j \in DOMAIN rkAgg :
          i # j /\ rkAgg[i].score = rkAgg[j].score /\ rkAgg[i].score > 0

(***************************************************************************)
(* Properties of the title task and of persistence (Spec)                  *)
(***************************************************************************)
\* The streams that created a title task.
TitledStreams == {r \in Streams : Has(log[r], "title_start")}

StageRaised(r) == \E n \in 1..3 : Has(log[r], RaiseOf(n))

\* C21 as stated: every stream that created a title task and is over has
\* awaited it exactly once, also when a stage failed first.
C21_TitleJoinedOnEveryRun ==
    \A r \in TitledStreams :
        reqPc[r] = "done" => Count(log[r], "title_join") = 1

\* C21 amended: a title task is awaited at most once, and only after stage 3
\* has returned and before the assistant message is stored; a stream whose
\* three stages returned has awaited it once when it is over; a stream in
\* which a stage raised never awaits it, the task is left running unawaited.
C21_TitleJoinedAfterStage3Only ==
    \A r \in TitledStreams :
        /\ Count(log[r], "title_join") <= 1
        /\ Has(log[r], "title_join") =>
              /\ Precedes(log[r], "s3_ret", "title_join")
              /\ ~StageRaised(r)
        /\ Has(log[r], "add_assistant") => Precedes(log[r], "title_join", "add_assistant")
        /\ (reqPc[r] = "done" /\ Has(log[r], "s3_ret")) => Count(log[r], "title_join") = 1
        /\ StageRaised(r) => titleTask[r] = "abandoned" /\ ~Has(log[r], "title_join")

\* One stream awaited its title task after stage 3 and stored its assistant
\* message; another created a title task and ended on a stage-2 failure.
C21_Witness ==
    \E r, q \in TitledStreams :
        /\ Has(log[r], "title_join") /\ Has(log[r], "add_assistant")
        /\ Has(log[q], "s2_raise") /\ reqPc[q] = "done"

\* C22: a request whose three stages returned and whose title call raised
\* still stores its assistant message and ends successfully: the stream ends
\* with `complete`, the non-streaming caller receives the stage results.
C22_TitleFailureKeepsPipeline ==
    \A r \in Reqs :
        (reqPc[r] = "done" /\ Has(log[r], "s3_ret") /\ Has(log[r], "title_raise")) =>
            /\ AssistantSlots(r) # {}
            /\ r \in Streams => LastOf(Events(r)) = "complete"
            /\ r \in Syncs => ReturnsStages(r)

(***************************************************************************)
(* Properties of gateway values and of the fan-out (SpecFan)               *)
(***************************************************************************)
\* The value carries a completion text.
HasContent(v) == ~v.isNone /\ v.content # NoneVal

\* The value reports a failure: query_model has no error field, None is its
\* only failure value.
HasError(v) == v.isNone

\* C23: every value a gateway call returned has exactly one of content and
\* error: a success has a content, and no value has neither or both.
C23_ContentXorError ==
    \A i \in FanRange :
        i \in fanDone => (HasContent(responses[i]) <=> ~HasError(responses[i]))

\* C24: a fan-out has returned only if every one of its calls completed, a
\* completed call (failed or not) leaves the other calls in flight and their
\* values untouched, and a started fan-out does return once its calls ended.
C24_FanOutWaitsForAll ==
    /\ [](fanPc = "returned" => fanDone = DOMAIN fanModels)
    /\ [][fanPc = "gathering" /\ fanPc' = "gathering" =>
            /\ Cardinality(fanDone' \ fanDone) <= 1
            /\ fanDone \subseteq fanDone'
            /\ \A i \in DOMAIN fanModels \ fanDone' : responses'[i] = responses[i]]_vars
    /\ (fanPc = "gathering" ~> fanPc = "returned")

\* A call has timed out while two other calls of the fan-out are in flight.
C24_Witness ==
    /\ fanPc = "gathering"
    /\ Len(fanModels) = 3
    /\ \E i \in fanDone : fanUpstream[i].kind = "timeout"
    /\ Cardinality(fanDone) = 1

(***************************************************************************)
(* Properties of concurrent message requests (Spec)                        *)
(***************************************************************************)
\* C25: every message stored in a conversation was stored by a request sent
\* to that conversation, an assistant message holds the stage results of the
\* request that stored it and of no other, and the results a request holds
\* (the payload of its stage events) are its own.
C25_NoSharedDeliberationState ==
    /\ \A c \in ConvIds : \A i \in DOMAIN convMsgs[c] :
          LET m == convMsgs[c][i]
          IN /\ reqConv[m.req] = c
             /\ m.role = "assistant" =>
                   /\ m.stage1 = m.req /\ m.stage2 = m.req /\ m.stage3 = m.req
                   /\ <<m.stage1, m.stage2, m.stage3>>
                         = <<stage1[m.req], stage2[m.req], stage3[m.req]>>
    /\ \A r \in Reqs :
          /\ stage1[r] \in {NoStage, r}
          /\ stage2[r] \in {NoStage, r}
          /\ stage3[r] \in {NoStage, r}

\* A request has stored its assistant message in one conversation while a
\* request on another conversation, received earlier, is still waiting for
\* its stage 3 with its own stage-1 and stage-2 results.
C25_Witness ==
    \E r, q \in Reqs :
        /\ q < r
        /\ reqConv[r] # reqConv[q]
        /\ reqConv[q] # MissingConv
        /\ AssistantSlots(r) # {}
        /\ reqPc[q] = "s3"
        /\ stage2[q] = q

\* The requests that started title generation for conversation c.
TitleStarters(c) == {r \in Reqs : reqConv[r] = c /\ Has(log[r], "title_start")}

\* C26: title generation is started by at most one request per conversation.
C26_TitleStartedOncePerConversation ==
    \A c \in ConvIds : Cardinality(TitleStarters(c)) <= 1

\* C27: in every conversation each assistant message comes directly after
\* the user message of the request that stored it, and the roles of the
\* stored messages alternate, starting with user.
C27_MessagesAlternate ==
    \A c \in ConvIds : \A i \in DOMAIN convMsgs[c] :
        LET m == convMsgs[c][i]
        IN /\ m.role = "assistant" =>
                 /\ i > 1
                 /\ convMsgs[c][i - 1] = UserMessage(m.req)
           /\ m.role = (IF i % 2 = 1 THEN "user" ELSE "assistant")

\* The conversation of request r holds the user message of r.
UserMessageStored(r) ==
    /\ reqConv[r] # MissingConv
    /\ \E i \in DOMAIN convMsgs[reqConv[r]] : convMsgs[reqConv[r]][i] = UserMessage(r)

\* C28 as stated: a stream that yielded error has stored its user message
\* and no assistant message.
C28_ErrorLeavesUserMessageOnly ==
    \A r \in Streams :
        Has(log[r], "error") => UserMessageStored(r) /\ AssistantSlots(r) = {}

\* C28 amended: a stream that yielded error has stored no assistant message;
\* it has stored its user message exactly if the error is not the failure of
\* add_user_message itself, so after a failure of a stage, of the title task
\* or of a later write the conversation holds the user message of the
\* request and no assistant message for it.
C28_ErrorLeavesNoAssistantMessage ==
    \A r \in Streams :
        Has(log[r], "error") =>
            /\ AssistantSlots(r) = {}
            /\ UserMessageStored(r) <=> ~Has(log[r], "add_user_raise")
            /\ Has(log[r], "add_user_raise") => Events(r) = <<"error">>
            /\ (StageRaised(r) \/ Has(log[r], "title_raise")) => UserMessageStored(r)

\* One stream ended with error after its title task failed, another after
\* its stage 2 raised; both conversations hold the user message.
C28_Witness ==
    \E r, q \in Streams :
        /\ Has(log[r], "title_raise") /\ Has(log[r], "error") /\ UserMessageStored(r)
        /\ Has(log[q], "s2_raise") /\ Has(log[q], "error") /\ UserMessageStored(q)

\* C29: a stream yields `complete` only after its add_assistant_message
\* call has returned, the message then being in the conversation, and yields
\* `title_complete` only after update_conversation_title has returned, the
\* conversation then having a title, and after stage3_complete.
C29_EventsFollowWrites ==
    \A r \in Streams :
        /\ Has(log[r], "complete") =>
              /\ Precedes(log[r], "add_assistant", "complete")
              /\ AssistantSlots(r) # {}
        /\ Has(log[r], "title_complete") =>
              /\ Precedes(log[r], "set_title", "title_complete")
              /\ Precedes(log[r], "stage3_complete", "title_complete")
              /\ convTitle[reqConv[r]] # 0

\* A stream has yielded title_complete and complete.
C29_Witness ==
    \E r \in Streams :
        /\ Has(log[r], "title_complete")
        /\ LastOf(Events(r)) = "complete"
        /\ reqPc[r] = "done"

(***************************************************************************)
(* Pairing of models and responses (SpecFan)                               *)
(***************************************************************************)
\* C30: in the mapping query_models_parallel returns, the value under each
\* model is the value of the call made for that model: the failure value if
\* that call failed, and otherwise the text its own upstream answered with.
\* The calls complete in every order, the positions of the values do not
\* depend on it.
C30_OwnResponsePerModel ==
    fanPc = "returned" =>
        \A i \in DOMAIN fanModels :
            LET v == fanResult[fanModels[i]]
            IN /\ v = responses[i]
               /\ v.isNone <=> (apiKey # "valid" \/ TryBlockRaises(fanUpstream[i]) # "none")
               /\ ~v.isNone => v.content = fanUpstream[i].content

\* A returned fan-out of three models listed out of numeric order, whose
\* three calls ended with three different values.
C30_Witness ==
    /\ fanPc = "returned"
    /\ Len(fanModels) = 3
    /\ fanModels[1] > fanModels[2]
    /\ fanUpstream[1].kind = "ok" /\ fanUpstream[1].content = 1
    /\ fanUpstream[2].kind = "ok" /\ fanUpstream[2].content = 2
    /\ fanUpstream[3].kind = "timeout"
    /\ fanResult[fanModels[2]].content = 2

====
